---- MODULE Spec2Model ----
(***************************************************************************)
(* Model of the goldmark superscript extension (src/superscript.go):       *)
(* the inline parser superscriptParser.Parse, the Superscript node it      *)
(* builds and the HTML render callback renderSuperscript, together with    *)
(* the host's reader, inline driver and AST walk they run under.           *)
(*                                                                         *)
(* The source buffer is a sequence of UTF-8 bytes (Go []byte); characters  *)
(* are code points (Go rune).  Go indexes from 0, TLA+ sequences from 1:   *)
(* At(line, i) is line[i] of the Go code.                                  *)
(***************************************************************************)
EXTENDS Integers, Sequences, FiniteSets, TLC

VARIABLES
    source,   \* the reader's source buffer: the bytes of one line of inline text
    pos,      \* the reader's position: 0-based byte offset into source
    nodes,    \* the children of the parent inline node, in order
    call,     \* the inputs of the latest Parse call, and the reader position it saw
    result,   \* what the latest Parse call returned
    phase,    \* where the pipeline is: call/returned (one Parse call),
              \* scan/parsed/walk/done (driver, transform pass, render walk)
    walk,     \* the render walk: index of the current child and the step within it
    out       \* the output writer's buffer (bytes)

vars == <<source, pos, nodes, call, result, phase, walk, out>>

-----------------------------------------------------------------------------
(* Bounds of the model. *)

\* characters of the line handed to a single Parse call
MaxLineLen == 5

\* characters of a line scanned by the inline driver
MaxDriverLen == 7

-----------------------------------------------------------------------------
(* Bytes and characters. *)

\* the trigger and delimiter byte '^'
CARET == 94

\* Code points the lines are drawn from: '^', ' ', 'x', ']',
\* U+5805 (a CJK ideograph, UTF-8 E5 A0 85: its continuation bytes are 0xA0
\* and 0x85) and U+2003 EM SPACE (UTF-8 E2 80 83).
Chars == {CARET, 32, 120, 93, 22533, 8195}

\* Code points that may precede the reader's position: ' ', 'x', '[', '^',
\* U+2003 EM SPACE.
LeadChars == {32, 120, 91, CARET, 8195}

\* Code points the driver's lines are drawn from: '^', 'a', '2'.
DriverChars == {CARET, 97, 50}

\* unicode.IsSpace on a rune: the Latin-1 spaces, then the White_Space property.
IsSpace(r) ==
    \/ r \in {9, 10, 11, 12, 13, 32, 133, 160}
    \/ r \in {5760, 8232, 8233, 8239, 8287, 12288}
    \/ r \in 8192..8202

\* rune(b): a byte converted to a rune is the code point of the same value.
RuneOfByte(b) == b

\* The UTF-8 encoding of one code point below U+10000.
EncodeRune(cp) ==
    IF cp < 128 THEN <<cp>>
    ELSE IF cp < 2048 THEN <<192 + (cp \div 64), 128 + (cp % 64)>>
    ELSE <<224 + (cp \div 4096), 128 + ((cp \div 64) % 64), 128 + (cp % 64)>>

RECURSIVE Encode(_)
Encode(chars) ==
    IF chars = <<>> THEN <<>>
    ELSE EncodeRune(Head(chars)) \o Encode(Tail(chars))

\* Number of bytes of the UTF-8 sequence that a lead byte starts.
RuneLen(b) == IF b < 128 THEN 1 ELSE IF b < 224 THEN 2 ELSE 3

\* The code point encoded at the head of a well-formed UTF-8 byte sequence.
DecodeRune(bytes) ==
    LET b == bytes[1] IN
    IF b < 128 THEN b
    ELSE IF b < 224 THEN (b - 192) * 64 + (bytes[2] - 128)
    ELSE (b - 224) * 4096 + (bytes[2] - 128) * 64 + (bytes[3] - 128)

RECURSIVE Decode(_)
Decode(bytes) ==
    IF bytes = <<>> THEN <<>>
    ELSE LET n == RuneLen(bytes[1]) IN
         <<DecodeRune(bytes)>> \o Decode(SubSeq(bytes, n + 1, Len(bytes)))

\* line[i] of the Go code
At(line, i) == line[i + 1]

\* line[a:b] of the Go code
Slice(line, a, b) == SubSeq(line, a + 1, b)

\* All sequences over S of length at most n.
SeqsUpTo(S, n) == UNION {[1..k -> S] : k \in 0..n}

-----------------------------------------------------------------------------
(* The host's reader (text.Reader). *)

\* utf8.RuneStart: not a continuation byte
RuneStart(b) == b < 128 \/ b >= 192

\* block.PrecendingCharacter(): the rune that ends right before the reader's
\* position, or the start-of-line sentinel -1.
PrecendingCharacter(src, p) ==
    IF p <= 0 THEN -1
    ELSE LET i == CHOOSE k \in 0..(p - 1) :
                      /\ RuneStart(At(src, k))
                      /\ \A j \in (k + 1)..(p - 1) : ~RuneStart(At(src, j))
         IN DecodeRune(Slice(src, i, p))

\* block.PeekLine(): the rest of the line from the reader's position, and the
\* segment of the source it covers.
PeekLine(src, p) ==
    [line |-> Slice(src, p, Len(src)), segment |-> [Start |-> p, Stop |-> Len(src)]]

-----------------------------------------------------------------------------
(* The Superscript node and its text child. *)

\* ast.NewTextSegment(segment): a text node that is a view [Start, Stop) of the source
NewTextSegment(from, to) ==
    [kind |-> "Text", seg |-> [Start |-> from, Stop |-> to],
     children |-> <<>>, attrs |-> FALSE]

\* NewSuperscriptNode() followed by node.AppendChild for each of kids;
\* attrs says whether n.Attributes() is non-nil.
NewSuperscriptNode(kids) ==
    [kind |-> "Superscript", seg |-> [Start |-> 0, Stop |-> 0],
     children |-> kids, attrs |-> FALSE]

-----------------------------------------------------------------------------
(* superscriptParser.Parse *)

\* block.Advance(n)
Advance(p, n) == p + n

\* start := 1, "skip the opening caret"
start == 1

\* return nil: no node, no child appended, the reader left where it was
NoMatchAdvancing(p) ==
    [matched |-> FALSE, children |-> <<>>, pos |-> Advance(p, 1)]

NoMatch(p) ==
    [matched |-> FALSE, children |-> <<>>, pos |-> p]

\* len(line) < 2
TooShort(line) == Len(line) < 2

\* unicode.IsSpace(before) || before == -1
BadOpeningContextNoSentinel(before) == IsSpace(before)

BadOpeningContext(before) == IsSpace(before) \/ before = -1

\* len(line) >= 2 && line[1] == '^'
DoubledCaret(line) == Len(line) >= 2 /\ At(line, 1) = CARET

\* the loop looking for the closing caret: the first i >= s with line[i] == '^',
\* or -1
FindCloseLast(line, s) ==
    LET hits == {i \in s..(Len(line) - 1) : At(line, i) = CARET} IN
    IF hits = {} THEN -1
    ELSE CHOOSE i \in hits : \A j \in hits : j <= i

FindClose(line, s) ==
    LET hits == {i \in s..(Len(line) - 1) : At(line, i) = CARET} IN
    IF hits = {} THEN -1
    ELSE CHOOSE i \in hits : \A j \in hits : i <= j

\* content := line[start:end]
ContentShifted(line, s, end) == Slice(line, s + 1, end + 1)

Content(line, s, end) == Slice(line, s, end)

\* for _, b := range content { if unicode.IsSpace(rune(b)) ... }
ContentHasSpace(content) ==
    \E k \in 1..Len(content) : IsSpace(RuneOfByte(content[k]))

\* firstChar := rune(content[0]); firstChar == '^'
FirstCharIsCaret(content) == RuneOfByte(content[1]) = CARET

\* The node is created, the reader advanced past the opening caret, the text
\* segment [segment.Start+start, segment.Start+end) appended as the node's only
\* child, and the reader advanced past the content and the closing caret.
Match(segment, p, s, end) ==
    [matched |-> TRUE,
     children |-> <<NewTextSegment(segment.Start + s, segment.Start + end)>>,
     pos |-> Advance(Advance(p, 1), end)]

\* Parse from the search for the closing caret on, with start = s.
Scan(line, segment, p, s) ==
    LET end == FindClose(line, s) IN
    IF end = -1 THEN NoMatch(p)
    ELSE IF end <= s THEN NoMatch(p)
    ELSE LET content == Content(line, s, end) IN
         IF ContentHasSpace(content) THEN NoMatch(p)
         ELSE IF FirstCharIsCaret(content) THEN NoMatch(p)
         ELSE Match(segment, p, s, end)

\* Parse with the doubled caret taken as an opener of its own (start = 2)
\* instead of being left to another parser.
ParseDoubledCaretOpens(src, p) ==
    LET before == PrecendingCharacter(src, p)
        pl == PeekLine(src, p)
    IN  IF TooShort(pl.line) THEN NoMatch(p)
        ELSE IF BadOpeningContext(before) THEN NoMatch(p)
        ELSE IF DoubledCaret(pl.line) THEN Scan(pl.line, pl.segment, p, start + 1)
        ELSE Scan(pl.line, pl.segment, p, start)

\* Parse(parent, block, pc) with the reader block = (src, p): what it returns
\* (matched: a node rather than nil; children: the node's children) and where
\* it leaves the reader (pos).
Parse(src, p) ==
    LET before == PrecendingCharacter(src, p)
        pl == PeekLine(src, p)
    IN  IF TooShort(pl.line) THEN NoMatch(p)
        ELSE IF BadOpeningContext(before) THEN NoMatch(p)
        ELSE IF DoubledCaret(pl.line) THEN NoMatch(p)
        ELSE Scan(pl.line, pl.segment, p, start)

-----------------------------------------------------------------------------
(* A single Parse call on a reader in any position. *)

NoCall == [pos |-> -1, before |-> -1, line |-> <<>>]

Idle == [idx |-> 0, step |-> "none", status |-> "none", mark |-> 0]

\* the inputs Parse reads from the reader at (src, p)
CallOf(src, p) ==
    [pos |-> p, before |-> PrecendingCharacter(src, p), line |-> PeekLine(src, p).line]

\* what may precede the reader's position: nothing (start of line), or one
\* of LeadChars
Leads == {<<>>} \cup {<<c>> : c \in LeadChars}

InitParse ==
    \E lead \in Leads, body \in SeqsUpTo(Chars, MaxLineLen) :
        /\ source = Encode(lead \o body)
        /\ pos = Len(Encode(lead))
        /\ nodes = <<>>
        /\ call = NoCall
        /\ result = NoMatch(0)
        /\ phase = "call"
        /\ walk = Idle
        /\ out = <<>>

ParseCall ==
    /\ phase = "call"
    /\ LET r == Parse(source, pos) IN
        /\ call' = CallOf(source, pos)
        /\ result' = r
        /\ pos' = r.pos
        /\ nodes' = IF r.matched
                    THEN Append(nodes, NewSuperscriptNode(r.children))
                    ELSE nodes
    /\ phase' = "returned"
    /\ UNCHANGED <<source, walk, out>>

NextParse == ParseCall

Spec == InitParse /\ [][NextParse]_vars

-----------------------------------------------------------------------------
(* SuperscriptHTMLRenderer.renderSuperscript *)

\* "<sup"
SupOpenStart == <<60, 115, 117, 112>>

\* "<sup>"
SupOpen == <<60, 115, 117, 112, 62>>

\* "</sup>"
SupClose == <<60, 47, 115, 117, 112, 62>>

\* html.RenderAttributes(w, n, SuperscriptAttributeFilter): the node's
\* attributes, filtered and escaped by the host; here the one attribute id="s".
RenderAttributes(w, n) == w \o <<32, 105, 100, 61, 34, 115, 34>>

\* renderSuperscript written without the '/' of the closing tag
renderSuperscriptNoSlash(w, n, entering) ==
    [w |-> IF entering
           THEN IF n.attrs
                THEN Append(RenderAttributes(w \o SupOpenStart, n), 62)
                ELSE w \o SupOpen
           ELSE w \o SupOpen,
     status |-> "WalkContinue"]

\* renderSuperscript(w, source, n, entering): the writer after the call and
\* the walk status returned
renderSuperscript(w, n, entering) ==
    [w |-> IF entering
           THEN IF n.attrs
                THEN Append(RenderAttributes(w \o SupOpenStart, n), 62)
                ELSE w \o SupOpen
           ELSE w \o SupClose,
     status |-> "WalkContinue"]

-----------------------------------------------------------------------------
(* The host: the inline driver, a later pass that sets attributes, and the   *)
(* depth-first render walk.                                                  *)

\* The driver keeps a literal byte as text: merged into the text node that
\* ends where it starts, or as a new text node.
AppendLiteral(ns, from, to) ==
    IF /\ ns # <<>>
       /\ ns[Len(ns)].kind = "Text"
       /\ ns[Len(ns)].seg.Stop = from
    THEN [ns EXCEPT ![Len(ns)].seg.Stop = to]
    ELSE Append(ns, NewTextSegment(from, to))

\* The host's text renderer: the bytes of the segment (none of the bytes of
\* DriverChars needs escaping).
RenderText(w, src, n) == w \o Slice(src, n.seg.Start, n.seg.Stop)

RECURSIVE RenderChildren(_, _, _)
RenderChildren(w, src, kids) ==
    IF kids = <<>> THEN w
    ELSE RenderChildren(RenderText(w, src, Head(kids)), src, Tail(kids))

InitDriver ==
    \E chars \in SeqsUpTo(DriverChars, MaxDriverLen) :
        /\ source = Encode(chars)
        /\ pos = 0
        /\ nodes = <<>>
        /\ call = NoCall
        /\ result = NoMatch(0)
        /\ phase = "scan"
        /\ walk = Idle
        /\ out = <<>>

\* The driver at a trigger character: Parse is called; a node it returns is
\* appended to the parent and scanning resumes where Parse left the reader;
\* on no match the reader is put back and the '^' is kept as literal text.
DriverTrigger ==
    /\ phase = "scan"
    /\ pos < Len(source)
    /\ At(source, pos) = CARET
    /\ LET r == Parse(source, pos) IN
        /\ call' = CallOf(source, pos)
        /\ result' = r
        /\ IF r.matched
           THEN /\ nodes' = Append(nodes, NewSuperscriptNode(r.children))
                /\ pos' = r.pos
           ELSE /\ nodes' = AppendLiteral(nodes, pos, pos + 1)
                /\ pos' = pos + 1
    /\ UNCHANGED <<source, phase, walk, out>>

\* The driver at any other byte: literal text.
DriverLiteral ==
    /\ phase = "scan"
    /\ pos < Len(source)
    /\ At(source, pos) # CARET
    /\ nodes' = AppendLiteral(nodes, pos, pos + 1)
    /\ pos' = pos + 1
    /\ UNCHANGED <<source, call, result, phase, walk, out>>

DriverEnd ==
    /\ phase = "scan"
    /\ pos = Len(source)
    /\ phase' = "parsed"
    /\ UNCHANGED <<source, pos, nodes, call, result, walk, out>>

\* A later pass sets an attribute on a Superscript node (n.SetAttribute).
AttachAttributes ==
    /\ phase = "parsed"
    /\ \E i \in 1..Len(nodes) :
        /\ nodes[i].kind = "Superscript"
        /\ ~nodes[i].attrs
        /\ nodes' = [nodes EXCEPT ![i].attrs = TRUE]
    /\ UNCHANGED <<source, pos, call, result, phase, walk, out>>

WalkBegin ==
    /\ phase = "parsed"
    /\ phase' = "walk"
    /\ walk' = [idx |-> 1, step |-> "enter", status |-> "none", mark |-> 0]
    /\ UNCHANGED <<source, pos, nodes, call, result, out>>

WalkText ==
    /\ phase = "walk"
    /\ walk.idx <= Len(nodes)
    /\ nodes[walk.idx].kind = "Text"
    /\ out' = RenderText(out, source, nodes[walk.idx])
    /\ walk' = [walk EXCEPT !.idx = @ + 1, !.status = "WalkContinue"]
    /\ UNCHANGED <<source, pos, nodes, call, result, phase>>

\* The walker enters a Superscript node: the callback with entering = true;
\* on WalkContinue the children are visited next.
WalkEnter ==
    /\ phase = "walk"
    /\ walk.idx <= Len(nodes)
    /\ nodes[walk.idx].kind = "Superscript"
    /\ walk.step = "enter"
    /\ LET r == renderSuperscript(out, nodes[walk.idx], TRUE) IN
        /\ out' = r.w
        /\ walk' = [walk EXCEPT
                      !.step = IF r.status = "WalkContinue" THEN "child" ELSE "leave",
                      !.status = r.status,
                      !.mark = Len(out)]
    /\ UNCHANGED <<source, pos, nodes, call, result, phase>>

WalkChildren ==
    /\ phase = "walk"
    /\ walk.step = "child"
    /\ out' = RenderChildren(out, source, nodes[walk.idx].children)
    /\ walk' = [walk EXCEPT !.step = "leave"]
    /\ UNCHANGED <<source, pos, nodes, call, result, phase>>

\* The walker leaves the node: the callback with entering = false.
WalkLeave ==
    /\ phase = "walk"
    /\ walk.step = "leave"
    /\ LET r == renderSuperscript(out, nodes[walk.idx], FALSE) IN
        /\ out' = r.w
        /\ walk' = [walk EXCEPT !.idx = @ + 1, !.step = "enter", !.status = r.status]
    /\ UNCHANGED <<source, pos, nodes, call, result, phase>>

WalkEnd ==
    /\ phase = "walk"
    /\ walk.idx > Len(nodes)
    /\ phase' = "done"
    /\ UNCHANGED <<source, pos, nodes, call, result, walk, out>>

NextDriver ==
    \/ DriverTrigger
    \/ DriverLiteral
    \/ DriverEnd
    \/ AttachAttributes
    \/ WalkBegin
    \/ WalkText
    \/ WalkEnter
    \/ WalkChildren
    \/ WalkLeave
    \/ WalkEnd

SpecDriver == InitDriver /\ [][NextDriver]_vars

-----------------------------------------------------------------------------
(* The shape of the line a Parse call was given, in characters. *)

\* 1-based index of the first '^' after the opening one, 0 when there is none
CloserIndex(chars) ==
    LET hits == {k \in 2..Len(chars) : chars[k] = CARET} IN
    IF hits = {} THEN 0 ELSE CHOOSE k \in hits : \A j \in hits : k <= j

\* the line is '^' + C + '^' + rest with C free of '^' (C may be empty)
IsCandidate(line) ==
    /\ line # <<>>
    /\ line[1] = CARET
    /\ CloserIndex(Decode(line)) # 0

\* the characters of C
CandidateContent(line) ==
    LET chars == Decode(line) IN SubSeq(chars, 2, CloserIndex(chars) - 1)

HasWhitespaceChar(chars) == \E k \in 1..Len(chars) : IsSpace(chars[k])

Returned == phase = "returned"

\* C1: preceded by a non-whitespace character, a line '^' + C + '^' + rest
\* with C one or more characters, none whitespace and none '^', yields a node
\* whose single text child is [Start+1, Start+len(C)+1) and moves the reader
\* by len(C) + 2.
C1_WellFormedSpanMatches ==
    (/\ Returned
     /\ call.before # -1 /\ ~IsSpace(call.before)
     /\ IsCandidate(call.line)
     /\ CandidateContent(call.line) # <<>>
     /\ ~HasWhitespaceChar(CandidateContent(call.line)))
    => LET n == Len(Encode(CandidateContent(call.line))) IN
       /\ result.matched
       /\ result.children = <<NewTextSegment(call.pos + 1, call.pos + n + 1)>>
       /\ pos = call.pos + n + 2

\* C2: a line '^' + C + '^' + rest whose C has a whitespace character is not
\* matched, whatever precedes it.
C2_WhitespaceContentRejected ==
    (/\ Returned
     /\ IsCandidate(call.line)
     /\ HasWhitespaceChar(CandidateContent(call.line)))
    => (~result.matched /\ pos = call.pos)

\* C3: preceded by whitespace or by the start of the line, Parse returns no
\* match whatever the line holds.
C3_BadOpeningContextRejected ==
    (Returned /\ (call.before = -1 \/ IsSpace(call.before)))
    => ~result.matched

C3_Witness ==
    /\ Returned
    /\ call.before = 8195
    /\ call.line = <<CARET, 120, CARET>>
    /\ ~result.matched

\* C4: when the byte after the trigger caret is '^', Parse returns no match.
C4_DoubledCaretRejected ==
    (Returned /\ Len(call.line) >= 2 /\ call.line[2] = CARET)
    => ~result.matched

C4_Witness ==
    /\ Returned
    /\ call.before = 120
    /\ call.line = <<CARET, CARET, 120, CARET>>
    /\ ~result.matched

\* C5: Parse returns on every input, and a call that returns no match leaves
\* the reader where it was and appends no child to any node.
C5_TotalAndCleanFailure ==
    /\ phase = "call" => Parse(source, pos).matched \in BOOLEAN
    /\ Returned => result.matched \in BOOLEAN
    /\ (Returned /\ ~result.matched)
       => (pos = call.pos /\ result.children = <<>> /\ nodes = <<>>)

C5_Witness ==
    /\ Returned
    /\ call.before = 120
    /\ call.line = <<CARET, 120>>
    /\ ~result.matched
    /\ pos = call.pos

\* the line is '^' + id + ']' + rest with id one or more characters, none of
\* them whitespace, '^' or ']'
IsFootnoteRef(line) ==
    LET chars == Decode(line)
        hits == {k \in 2..Len(chars) : chars[k] = 93}
    IN  /\ line # <<>>
        /\ line[1] = CARET
        /\ hits # {}
        /\ LET k == CHOOSE h \in hits : \A j \in hits : h <= j IN
           /\ k >= 3
           /\ \A j \in 2..(k - 1) : chars[j] # CARET /\ ~IsSpace(chars[j])

\* C7: at the caret of a bracketed reference [^id], Parse returns no match
\* whatever follows the closing bracket.
C7_FootnoteCaretNotClaimed ==
    (Returned /\ call.before = 91 /\ IsFootnoteRef(call.line))
    => ~result.matched

\* Parse with the firstChar check (step 7) removed
ScanWithoutFirstCharCheck(line, segment, p, s) ==
    LET end == FindClose(line, s) IN
    IF end = -1 THEN NoMatch(p)
    ELSE IF end <= s THEN NoMatch(p)
    ELSE IF ContentHasSpace(Content(line, s, end)) THEN NoMatch(p)
    ELSE Match(segment, p, s, end)

ParseWithoutFirstCharCheck(src, p) ==
    LET before == PrecendingCharacter(src, p)
        pl == PeekLine(src, p)
    IN  IF TooShort(pl.line) THEN NoMatch(p)
        ELSE IF BadOpeningContext(before) THEN NoMatch(p)
        ELSE IF DoubledCaret(pl.line) THEN NoMatch(p)
        ELSE ScanWithoutFirstCharCheck(pl.line, pl.segment, p, start)

HasThreeCarets(line) ==
    \E k \in 1..(Len(line) - 2) :
        line[k] = CARET /\ line[k + 1] = CARET /\ line[k + 2] = CARET

\* C9 as stated: among the inputs a call can be given, one with three or more
\* consecutive carets is parsed differently with and without the firstChar
\* check.
C9_FirstCharCheckChangesSomeInput ==
    phase = "call" =>
        \E lead \in Leads, body \in SeqsUpTo(Chars, MaxLineLen) :
            LET src == Encode(lead \o body)
                p == Len(Encode(lead))
            IN  /\ HasThreeCarets(PeekLine(src, p).line)
                /\ Parse(src, p) # ParseWithoutFirstCharCheck(src, p)

\* C9 amended: the firstChar check never changes what Parse returns.
C9_FirstCharCheckRedundant ==
    Returned => result = ParseWithoutFirstCharCheck(source, call.pos)

C9_Witness ==
    /\ Returned
    /\ call.before = 120
    /\ call.line = <<CARET, 120, CARET, CARET, CARET>>
    /\ HasThreeCarets(call.line)
    /\ result.matched

\* C10: a candidate '^' + C + '^' after a non-whitespace character (C without
\* '^', not empty) is rejected exactly when a character of C is whitespace.
C10_WhitespaceDecidedPerCharacter ==
    (/\ Returned
     /\ call.before # -1 /\ ~IsSpace(call.before)
     /\ IsCandidate(call.line)
     /\ CandidateContent(call.line) # <<>>)
    => (~result.matched <=> HasWhitespaceChar(CandidateContent(call.line)))

-----------------------------------------------------------------------------
(* Rendering and the driver. *)

\* number of places of w where the bytes tag begin, among the first n bytes
TagCount(w, tag, n) ==
    Cardinality({k \in 1..(n - Len(tag) + 1) : SubSeq(w, k, k + Len(tag) - 1) = tag})

\* opening tags not yet closed among the first n bytes of w
OpenDepth(w, n) ==
    TagCount(w, <<60, 115, 117, 112>>, n) - TagCount(w, <<60, 47, 115, 117, 112, 62>>, n)

\* what the walk has written since it entered the Superscript node
SinceMark == SubSeq(out, walk.mark + 1, Len(out))

ChildText(n) == Slice(source, n.children[1].seg.Start, n.children[1].seg.Stop)

\* C6: for a Superscript node without attributes the walk writes exactly
\* "<sup>" on entering, then the children, then exactly "</sup>" on leaving,
\* both calls returning WalkContinue; in the output of any walk the tags
\* nest: never two open, none closed before it is opened, all closed at the end.
C6_SupTagsBracketContent ==
    /\ walk.status \in {"none", "WalkContinue"}
    /\ (phase = "walk" /\ walk.step = "child" /\ ~nodes[walk.idx].attrs)
       => SinceMark = <<60, 115, 117, 112, 62>>
    /\ (phase = "walk" /\ walk.step = "leave" /\ ~nodes[walk.idx].attrs)
       => SinceMark = <<60, 115, 117, 112, 62>> \o ChildText(nodes[walk.idx])
    /\ (/\ phase = "walk" /\ walk.step = "enter" /\ walk.idx > 1
        /\ nodes[walk.idx - 1].kind = "Superscript"
        /\ ~nodes[walk.idx - 1].attrs)
       => SinceMark = <<60, 115, 117, 112, 62>> \o ChildText(nodes[walk.idx - 1])
                        \o <<60, 47, 115, 117, 112, 62>>
    /\ \A n \in 0..Len(out) : OpenDepth(out, n) \in {0, 1}
    /\ phase = "walk" => (OpenDepth(out, Len(out)) = 1 <=> walk.step # "enter")
    /\ phase = "done" => OpenDepth(out, Len(out)) = 0

C6_Witness ==
    /\ phase = "done"
    /\ source = <<97, CARET, 50, CARET>>
    /\ ~nodes[2].attrs
    /\ out = <<97, 60, 115, 117, 112, 62, 50, 60, 47, 115, 117, 112, 62>>

\* kind and text range of each child of the parent
Shape(ns) ==
    [i \in 1..Len(ns) |->
        IF ns[i].kind = "Text"
        THEN <<"Text", ns[i].seg.Start, ns[i].seg.Stop>>
        ELSE <<"Superscript", ns[i].children[1].seg.Start, ns[i].children[1].seg.Stop>>]

Scanned == phase \in {"parsed", "walk", "done"}

NoAttributes == \A i \in 1..Len(nodes) : ~nodes[i].attrs

\* C8: under the driver a span runs from its opening caret to the first caret
\* after it and holds one text child (no nesting); right after a match the
\* reader's preceding character is the closing caret; a^2^^2^ gives two
\* adjacent spans of content 2, a^2^2^^ gives one span of content 2 followed
\* by the literal text 2^^.
C8_FirstCloserEndsSpan ==
    /\ \A i \in 1..Len(nodes) :
         nodes[i].kind = "Superscript" =>
           /\ Len(nodes[i].children) = 1
           /\ nodes[i].children[1].kind = "Text"
           /\ LET s == nodes[i].children[1].seg.Start
                  e == nodes[i].children[1].seg.Stop
              IN  /\ s < e
                  /\ At(source, s - 1) = CARET
                  /\ At(source, e) = CARET
                  /\ \A k \in s..(e - 1) : At(source, k) # CARET
    /\ (phase = "scan" /\ call # NoCall /\ result.matched /\ pos = result.pos)
       => (/\ PrecendingCharacter(source, pos) = CARET
           /\ ~IsSpace(PrecendingCharacter(source, pos)))
    /\ (Scanned /\ source = <<97, CARET, 50, CARET, CARET, 50, CARET>>)
       => Shape(nodes) = << <<"Text", 0, 1>>, <<"Superscript", 2, 3>>,
                            <<"Superscript", 5, 6>> >>
    /\ (Scanned /\ source = <<97, CARET, 50, CARET, 50, CARET, CARET>>)
       => Shape(nodes) = << <<"Text", 0, 1>>, <<"Superscript", 2, 3>>,
                            <<"Text", 4, 7>> >>
    /\ (/\ phase = "done" /\ NoAttributes
        /\ source = <<97, CARET, 50, CARET, CARET, 50, CARET>>)
       => out = <<97, 60, 115, 117, 112, 62, 50, 60, 47, 115, 117, 112, 62,
                  60, 115, 117, 112, 62, 50, 60, 47, 115, 117, 112, 62>>
    /\ (/\ phase = "done" /\ NoAttributes
        /\ source = <<97, CARET, 50, CARET, 50, CARET, CARET>>)
       => out = <<97, 60, 115, 117, 112, 62, 50, 60, 47, 115, 117, 112, 62,
                  50, CARET, CARET>>

C8_Witness ==
    /\ phase = "done"
    /\ NoAttributes
    /\ source = <<97, CARET, 50, CARET, CARET, 50, CARET>>
    /\ Len(nodes) = 3
    /\ nodes[2].kind = "Superscript"
    /\ nodes[3].kind = "Superscript"

====
